---------------------------- MODULE Spec2Model ----------------------------
(***************************************************************************)
(* Model of src/main.py: a Telegram bot that validates a Solana address,   *)
(* records it in processed_addresses, asks the Jupiter aggregator for a    *)
(* quote and reports the result to the sender and to an optional group.    *)
(*                                                                         *)
(* Strings are sequences of code points.  Handlers are coroutines of one   *)
(* asyncio event loop: `running` is the coroutine that holds the loop; it  *)
(* is released only where a coroutine awaits network I/O of the Telegram   *)
(* client (reply_text, send_message).  requests.get (line 58) is a         *)
(* blocking call: the loop stays held while the HTTP request is in flight. *)
(***************************************************************************)
EXTENDS Integers, Sequences, FiniteSets, TLC

(***************************************************************************)
(* Bounds of the model.                                                    *)
(***************************************************************************)
\* number of inbound updates (handler invocations) of one run
MaxTasks == 2
\* validator inputs: a run of PadMin..PadMax equal characters ...
PadMin == 30
PadMax == 45
\* ... followed by at most MaxTailLen arbitrary sample characters
MaxTailLen == 2

(***************************************************************************)
(* Program constants.                                                      *)
(***************************************************************************)
\* the quantifier {32,44} of base58_regex
MinLen == 32
MaxLen == 44

Tasks == 1..MaxTasks
NoTask == 0

(***************************************************************************)
(* Strings.                                                                *)
(***************************************************************************)
Rep(c, n) == [i \in 1..n |-> c]

\* the character class [1-9A-HJ-NP-Za-km-z] of base58_regex, as code points
RegexClass ==
    (49..57) \cup (65..72) \cup (74..78) \cup (80..90) \cup (97..107) \cup (109..122)

Newline == {10}

\* re.match(r'^[1-9A-HJ-NP-Za-km-z]{32,44}$', address): n characters of the
\* class from position 0, then `$`, which matches at the end of the string
\* and also just before a newline that ends the string (the cheap test of
\* where the n characters end is written first).
regex_match(address) ==
    \E n \in MinLen..MaxLen :
        /\ n <= Len(address)
        /\ \/ n = Len(address)
           \/ n = Len(address) - 1 /\ address[Len(address)] \in Newline
        /\ \A i \in 1..n : address[i] \in RegexClass

is_valid_solana_address(address) == regex_match(address)

\* str.strip(): whitespace removed from both ends (the ASCII whitespace of
\* str.isspace, and NEL and NBSP of the non-ASCII ones)
Whitespace == {9, 10, 11, 12, 13, 28, 29, 30, 31, 32, 133, 160}

RECURSIVE lstrip(_)
lstrip(s) ==
    IF s = <<>> \/ s[1] \notin Whitespace THEN s ELSE lstrip(Tail(s))

RECURSIVE rstrip(_)
rstrip(s) ==
    IF s = <<>> \/ s[Len(s)] \notin Whitespace THEN s
    ELSE rstrip(SubSeq(s, 1, Len(s) - 1))

strip(s) == rstrip(lstrip(s))


(***************************************************************************)
(* Python values: None, and the values response.json() can return.  A dict *)
(* is the set of its <<key, value>> pairs.                                 *)
(***************************************************************************)
PyNone == [type |-> "None", members |-> {}]
Dict(m) == [type |-> "dict", members |-> m]
Unparsable == [type |-> "unparsable", members |-> {}]

\* bool(v) of `if not quote`: None and {} are false
Truthy(v) == v.type = "dict" /\ v.members # {}

HasKey(v, k) == v.type = "dict" /\ \E m \in v.members : m[1] = k
GetKey(v, k) == (CHOOSE m \in v.members : m[1] = k)[2]

\* the exception quote['outAmount'] raises, "" when it raises none
SubscriptError(v) ==
    IF v.type # "dict" THEN "TypeError"
    ELSE IF ~HasKey(v, "outAmount") THEN "KeyError"
    ELSE ""

(***************************************************************************)
(* The environment: what the quote endpoint can answer, and the updates    *)
(* the messaging platform can deliver.                                     *)
(***************************************************************************)
QuoteBody == Dict({<<"outAmount", "1500">>, <<"inAmount", "10000000">>})
ErrorBody == Dict({<<"error", "Could not find any route">>})

JsonBodies == {QuoteBody, ErrorBody, Dict({})}

NoResponse == [transport |-> "none", status |-> 0, body |-> Unparsable]

Responses ==
    {[transport |-> "error", status |-> 0, body |-> Unparsable]}
    \cup {[transport |-> "ok", status |-> 200, body |-> b] :
             b \in JsonBodies \cup {Unparsable}}
    \cup {[transport |-> "ok", status |-> s, body |-> QuoteBody] : s \in {300, 404}}

AddrA == Rep(49, MinLen)
AddrB == Rep(65, MaxLen)
CmdStart == <<47, 115, 116, 97, 114, 116>>
CmdHelp == <<47, 104, 101, 108, 112>>
CmdOther == <<47, 120>>

MessageTexts ==
    { AddrA, AddrB, <<32>> \o AddrA \o <<10>>, Rep(49, MinLen - 1),
      CmdStart, CmdHelp, CmdOther }

TailChars == {10, 32, 48, 73, 79, 108, 122}

RECURSIVE SeqsUpTo(_, _)
SeqsUpTo(S, n) ==
    IF n = 0 THEN {<<>>}
    ELSE LET shorter == SeqsUpTo(S, n - 1)
         IN  shorter \cup {Append(s, c) : s \in shorter, c \in S}

ValidatorInputs ==
    { Rep(c, n) \o tail :
        c \in {49, 65}, n \in PadMin..PadMax, tail \in SeqsUpTo(TailChars, MaxTailLen) }

(***************************************************************************)
(* State.                                                                  *)
(***************************************************************************)
VARIABLES
    TELEGRAM_API_TOKEN,   \* os.getenv values: "None" when unset
    GROUP_CHAT_ID,
    PRIVATE_KEY,
    wallet,               \* "None" or "Keypair"
    mainPc,               \* position of main()
    processed_addresses,  \* the module-level set
    running,              \* the coroutine holding the event loop, or NoTask
    task,                 \* per handler invocation: its locals, and the calls
                          \* it has made (adds, gets, forwards, replies)
    arg,                  \* argument of a direct is_valid_solana_address call
    returned,             \* whether that call has returned
    result                \* its return value

vars == << TELEGRAM_API_TOKEN, GROUP_CHAT_ID, PRIVATE_KEY, wallet, mainPc,
           processed_addresses, running, task, arg, returned, result >>

config == << TELEGRAM_API_TOKEN, GROUP_CHAT_ID, PRIVATE_KEY >>
validator == << arg, returned, result >>

IdleTask ==
    [ pc |-> "idle", handler |-> "none", text |-> <<>>, message_text |-> <<>>,
      adds |-> 0, gets |-> <<>>, response |-> NoResponse, quote |-> PyNone,
      forward |-> "none", forwards |-> <<>>, replies |-> <<>>, fault |-> "" ]

Falsy(v) == v \in {"None", ""}

(***************************************************************************)
(* Startup: main, setup_wallet, setup_telegram_bot, run_telegram_bot.      *)
(***************************************************************************)
\* setup_wallet without the except of lines 38-40 turning a bad key into False
MutSetupWalletAnyKey(private_key) == ~Falsy(private_key)

\* setup_wallet's return value: False without a key, False when b58decode
\* or Keypair.from_bytes raises on it, True otherwise
setup_wallet(private_key) ==
    IF Falsy(private_key) THEN FALSE
    ELSE IF private_key = "malformed" THEN FALSE
    ELSE TRUE

\* main, lines 144-146
Main ==
    /\ mainPc = "main"
    /\ IF setup_wallet(PRIVATE_KEY)
       THEN /\ wallet' = "Keypair"
            /\ mainPc' = "setup_and_run_bot"
       ELSE /\ wallet' = wallet
            /\ mainPc' = "exited"
    /\ UNCHANGED << config, processed_addresses, running, task, validator >>

\* setup_telegram_bot's return value: None without a token and None when
\* building the application raises, the application otherwise
setup_telegram_bot(token, buildRaises) ==
    IF Falsy(token) THEN "None"
    ELSE IF buildRaises THEN "None"
    ELSE "Application"

\* setup_and_run_bot, lines 152-155
SetupAndRunBot ==
    /\ mainPc = "setup_and_run_bot"
    /\ \E buildRaises \in BOOLEAN :
          mainPc' = IF setup_telegram_bot(TELEGRAM_API_TOKEN, buildRaises) = "None"
                    THEN "exited"
                    ELSE "run_telegram_bot"
    /\ UNCHANGED << config, wallet, processed_addresses, running, task, validator >>

\* run_telegram_bot: initialize, start and run_polling either bring the
\* application to dispatching updates or raise (a token the platform
\* rejects always does)
RunTelegramBot ==
    /\ mainPc = "run_telegram_bot"
    /\ \E raises \in BOOLEAN :
          /\ TELEGRAM_API_TOKEN = "rejected" => raises
          /\ mainPc' = IF raises THEN "crashed" ELSE "polling"
    /\ UNCHANGED << config, wallet, processed_addresses, running, task, validator >>

(***************************************************************************)
(* Dispatch of an update to the handlers registered in lines 124-128.      *)
(***************************************************************************)
IsCommand(txt) == Len(txt) > 0 /\ txt[1] = 47

\* the message handler registered with filters.TEXT alone, without
\* `& ~filters.COMMAND`
MutDispatchAllText(txt) ==
    IF txt = CmdStart THEN "start"
    ELSE IF txt = CmdHelp THEN "help_command"
    ELSE "handle_message"

\* the first handler whose filter accepts the message, "none" when none does
Dispatch(txt) ==
    IF txt = CmdStart THEN "start"
    ELSE IF txt = CmdHelp THEN "help_command"
    ELSE IF ~IsCommand(txt) THEN "handle_message"
    ELSE "none"

Set(t, r) == task' = [task EXCEPT ![t] = r]

Reply(t, kind, amount) ==
    Append(task[t].replies,
           [kind |-> kind, text |-> task[t].message_text, amount |-> amount])

\* an update arrives and the application starts its handler coroutine
Receive(t, txt) ==
    /\ mainPc = "polling"
    /\ running = NoTask
    /\ task[t].pc = "idle"
    /\ \A u \in Tasks : u < t => task[u].pc # "idle"
    /\ LET h == Dispatch(txt)
       IN  /\ Set(t, [task[t] EXCEPT !.handler = h, !.text = txt,
                          !.pc = IF h = "none" THEN "done" ELSE h])
           /\ running' = IF h = "none" THEN NoTask ELSE t
    /\ UNCHANGED << config, wallet, mainPc, processed_addresses, validator >>

\* start (line 68) and help_command (line 79): one reply_text, awaited
Help(t) ==
    /\ running = t
    /\ task[t].pc \in {"start", "help_command"}
    /\ Set(t, [task[t] EXCEPT !.replies = Reply(t, task[t].handler, ""),
                              !.pc = "await_reply"])
    /\ running' = NoTask
    /\ UNCHANGED << config, wallet, mainPc, processed_addresses, validator >>

(***************************************************************************)
(* handle_message.  A pc names the source line the coroutine is at.        *)
(***************************************************************************)
Held == << config, wallet, mainPc, validator >>

\* lines 83-87 without the return of line 87
MutValidateNoReturn(t) ==
    /\ running = t
    /\ task[t].pc = "handle_message"
    /\ LET message_text == strip(task[t].text)
           r == [task[t] EXCEPT !.message_text = message_text, !.pc = "L89"]
       IN  IF ~is_valid_solana_address(message_text)
           THEN task' = [task EXCEPT ![t] =
                       [r EXCEPT !.replies = Append(@, [kind |-> "invalid",
                                     text |-> message_text, amount |-> ""])]]
           ELSE task' = [task EXCEPT ![t] = r]
    /\ UNCHANGED << Held, running, processed_addresses >>

\* lines 83-87: strip, validate, reject
Validate(t) ==
    /\ running = t
    /\ task[t].pc = "handle_message"
    /\ LET message_text == strip(task[t].text)
           r == [task[t] EXCEPT !.message_text = message_text]
       IN  IF ~is_valid_solana_address(message_text)
           THEN /\ task' = [task EXCEPT ![t] =
                       [r EXCEPT !.replies = Append(@, [kind |-> "invalid",
                                     text |-> message_text, amount |-> ""]),
                                 !.pc = "await_reply"]]
                /\ running' = NoTask
           ELSE /\ task' = [task EXCEPT ![t] = [r EXCEPT !.pc = "L89"]]
                /\ running' = running
    /\ UNCHANGED << Held, processed_addresses >>

\* lines 89-91 without the return of line 91
MutDedupCheckNoReturn(t) ==
    /\ running = t
    /\ task[t].pc = "L89"
    /\ IF task[t].message_text \in processed_addresses
       THEN Set(t, [task[t] EXCEPT !.replies = Reply(t, "already", ""),
                                   !.pc = "L93"])
       ELSE Set(t, [task[t] EXCEPT !.pc = "L93"])
    /\ UNCHANGED << Held, running, processed_addresses >>

\* lines 89-91 followed by an await before line 93: the loop is given up
\* between the membership test and the add
MutDedupCheckYields(t) ==
    /\ running = t
    /\ task[t].pc = "L89"
    /\ IF task[t].message_text \in processed_addresses
       THEN Set(t, [task[t] EXCEPT !.replies = Reply(t, "already", ""),
                                   !.pc = "await_reply"])
       ELSE Set(t, [task[t] EXCEPT !.pc = "L93"])
    /\ running' = NoTask
    /\ UNCHANGED << Held, processed_addresses >>

\* lines 89-91: the duplicate check
DedupCheck(t) ==
    /\ running = t
    /\ task[t].pc = "L89"
    /\ IF task[t].message_text \in processed_addresses
       THEN /\ Set(t, [task[t] EXCEPT !.replies = Reply(t, "already", ""),
                                      !.pc = "await_reply"])
            /\ running' = NoTask
       ELSE /\ Set(t, [task[t] EXCEPT !.pc = "L93"])
            /\ running' = running
    /\ UNCHANGED << Held, processed_addresses >>

\* line 93 left out
MutMarkSeenSkipped(t) ==
    /\ running = t
    /\ task[t].pc = "L93"
    /\ Set(t, [task[t] EXCEPT !.pc = "L96"])
    /\ UNCHANGED << Held, running, processed_addresses >>

\* line 93 assigning a fresh set instead of adding to the old one
MutMarkSeenReplaces(t) ==
    /\ running = t
    /\ task[t].pc = "L93"
    /\ processed_addresses' = {task[t].message_text}
    /\ Set(t, [task[t] EXCEPT !.adds = @ + 1, !.pc = "L96"])
    /\ UNCHANGED << Held, running >>

\* line 93 adding the text as received instead of the stripped message_text
MutMarkSeenRaw(t) ==
    /\ running = t
    /\ task[t].pc = "L93"
    /\ processed_addresses' = processed_addresses \cup {task[t].text}
    /\ Set(t, [task[t] EXCEPT !.adds = @ + 1, !.pc = "L96"])
    /\ UNCHANGED << Held, running >>

\* line 93
MarkSeen(t) ==
    /\ running = t
    /\ task[t].pc = "L93"
    /\ processed_addresses' = processed_addresses \cup {task[t].message_text}
    /\ Set(t, [task[t] EXCEPT !.adds = @ + 1, !.pc = "L96"])
    /\ UNCHANGED << Held, running >>

\* lines 96 and 46-58: execute_jupiter_swap is entered and calls
\* requests.get, which sends the request and blocks the thread
SendQuoteRequest(t) ==
    /\ running = t
    /\ task[t].pc = "L96"
    /\ Set(t, [task[t] EXCEPT !.gets = Append(@, task[t].message_text),
                              !.pc = "L58"])
    /\ UNCHANGED << Held, running, processed_addresses >>

\* response.raise_for_status() raises for the 4xx and 5xx statuses
raise_for_status(status) == 400 <= status /\ status < 600

\* lines 57-63: what execute_jupiter_swap returns for an outcome of the GET
execute_jupiter_swap(response) ==
    IF response.transport = "error" THEN PyNone
    ELSE IF raise_for_status(response.status) THEN PyNone
    ELSE IF response.body = Unparsable THEN PyNone
    ELSE response.body

\* lines 58-63 and 96: the GET ends, execute_jupiter_swap returns
QuoteReturn(t, response) ==
    /\ running = t
    /\ task[t].pc = "L58"
    /\ Set(t, [task[t] EXCEPT !.response = response,
                              !.quote = execute_jupiter_swap(response),
                              !.pc = "L97"])
    /\ UNCHANGED << Held, running, processed_addresses >>

\* lines 97-99, with the address released again when the quote failed
MutCheckQuoteForgets(t) ==
    /\ running = t
    /\ task[t].pc = "L97"
    /\ IF ~Truthy(task[t].quote)
       THEN /\ Set(t, [task[t] EXCEPT !.replies = Reply(t, "failed", ""),
                                      !.pc = "await_reply"])
            /\ processed_addresses' = processed_addresses \ {task[t].message_text}
            /\ running' = NoTask
       ELSE /\ Set(t, [task[t] EXCEPT !.pc = "L102"])
            /\ UNCHANGED << running, processed_addresses >>
    /\ UNCHANGED Held

\* lines 97-99
CheckQuote(t) ==
    /\ running = t
    /\ task[t].pc = "L97"
    /\ IF ~Truthy(task[t].quote)
       THEN /\ Set(t, [task[t] EXCEPT !.replies = Reply(t, "failed", ""),
                                      !.pc = "await_reply"])
            /\ running' = NoTask
       ELSE /\ Set(t, [task[t] EXCEPT !.pc = "L102"])
            /\ running' = running
    /\ UNCHANGED << Held, processed_addresses >>

GroupConfigured == ~Falsy(GROUP_CHAT_ID)

\* lines 102-110 without the test of line 102
MutForwardUnconditional(t) ==
    /\ running = t
    /\ task[t].pc = "L102"
    /\ IF SubscriptError(task[t].quote) # ""
       THEN /\ Set(t, [task[t] EXCEPT !.forward = SubscriptError(task[t].quote),
                                      !.pc = "L112"])
            /\ running' = running
       ELSE /\ Set(t, [task[t] EXCEPT
                         !.forwards = Append(@, [chat_id |-> GROUP_CHAT_ID,
                                       text |-> task[t].message_text,
                                       amount |-> GetKey(task[t].quote, "outAmount")]),
                         !.pc = "L104"])
            /\ running' = NoTask
    /\ UNCHANGED << Held, processed_addresses >>

\* lines 102-110 with send_message started but not awaited: the handler
\* goes on to line 112 while the forward is still under way
MutForwardNotAwaited(t) ==
    /\ running = t
    /\ task[t].pc = "L102"
    /\ IF ~GroupConfigured
       THEN Set(t, [task[t] EXCEPT !.pc = "L112"])
       ELSE IF SubscriptError(task[t].quote) # ""
       THEN Set(t, [task[t] EXCEPT !.forward = SubscriptError(task[t].quote),
                                   !.pc = "L112"])
       ELSE Set(t, [task[t] EXCEPT
                      !.forwards = Append(@, [chat_id |-> GROUP_CHAT_ID,
                                    text |-> task[t].message_text,
                                    amount |-> GetKey(task[t].quote, "outAmount")]),
                      !.pc = "L112"])
    /\ UNCHANGED << Held, running, processed_addresses >>

\* lines 102-110: the text of the forward is built inside the try, so an
\* exception of quote['outAmount'] is caught and logged like a failed send
Forward(t) ==
    /\ running = t
    /\ task[t].pc = "L102"
    /\ IF ~GroupConfigured
       THEN /\ Set(t, [task[t] EXCEPT !.pc = "L112"])
            /\ running' = running
       ELSE IF SubscriptError(task[t].quote) # ""
       THEN /\ Set(t, [task[t] EXCEPT !.forward = SubscriptError(task[t].quote),
                                      !.pc = "L112"])
            /\ running' = running
       ELSE /\ Set(t, [task[t] EXCEPT
                         !.forwards = Append(@, [chat_id |-> GROUP_CHAT_ID,
                                       text |-> task[t].message_text,
                                       amount |-> GetKey(task[t].quote, "outAmount")]),
                         !.pc = "L104"])
            /\ running' = NoTask
    /\ UNCHANGED << Held, processed_addresses >>

\* lines 104-110 without the try: what send_message raises leaves the handler
MutForwardReturnRaises(t, delivered) ==
    /\ running = NoTask
    /\ task[t].pc = "L104"
    /\ IF delivered
       THEN /\ Set(t, [task[t] EXCEPT !.forward = "sent", !.pc = "L112"])
            /\ running' = t
       ELSE /\ Set(t, [task[t] EXCEPT !.forward = "failed", !.pc = "faulted",
                                      !.fault = "NetworkError"])
            /\ running' = NoTask
    /\ UNCHANGED << Held, processed_addresses >>

\* lines 104-110: send_message returns or raises; `except Exception`
\* logs what it raises and the handler goes on
ForwardReturn(t, delivered) ==
    /\ running = NoTask
    /\ task[t].pc = "L104"
    /\ Set(t, [task[t] EXCEPT !.forward = IF delivered THEN "sent" ELSE "failed",
                              !.pc = "L112"])
    /\ running' = t
    /\ UNCHANGED << Held, processed_addresses >>

\* line 112: the text of the confirmation is built outside any try
Confirm(t) ==
    /\ running = t
    /\ task[t].pc = "L112"
    /\ IF SubscriptError(task[t].quote) # ""
       THEN Set(t, [task[t] EXCEPT !.fault = SubscriptError(task[t].quote),
                                   !.pc = "faulted"])
       ELSE Set(t, [task[t] EXCEPT
                      !.replies = Reply(t, "confirm", GetKey(task[t].quote, "outAmount")),
                      !.pc = "await_reply"])
    /\ running' = NoTask
    /\ UNCHANGED << Held, processed_addresses >>

\* lines 68, 79, 86, 90, 98, 112: the awaited reply_text returns, and the
\* handler returns, or raises out of the handler
ReplyReturn(t, delivered) ==
    /\ running = NoTask
    /\ task[t].pc = "await_reply"
    /\ Set(t, [task[t] EXCEPT !.pc = IF delivered THEN "done" ELSE "faulted",
                              !.fault = IF delivered THEN "" ELSE "NetworkError"])
    /\ UNCHANGED << Held, running, processed_addresses >>

(***************************************************************************)
(* The process.                                                            *)
(***************************************************************************)
Init ==
    /\ TELEGRAM_API_TOKEN \in {"None", "", "rejected", "token"}
    /\ GROUP_CHAT_ID \in {"None", "-1001"}
    /\ PRIVATE_KEY \in {"None", "", "malformed", "key"}
    /\ wallet = "None"
    /\ mainPc = "main"
    /\ processed_addresses = {}
    /\ running = NoTask
    /\ task = [t \in Tasks |-> IdleTask]
    /\ arg = <<>>
    /\ returned = FALSE
    /\ result = FALSE

Next ==
    \/ Main
    \/ SetupAndRunBot
    \/ RunTelegramBot
    \/ \E t \in Tasks, txt \in MessageTexts : Receive(t, txt)
    \/ \E t \in Tasks : Help(t)
    \/ \E t \in Tasks : Validate(t)
    \/ \E t \in Tasks : DedupCheck(t)
    \/ \E t \in Tasks : MarkSeen(t)
    \/ \E t \in Tasks : SendQuoteRequest(t)
    \/ \E t \in Tasks, response \in Responses : QuoteReturn(t, response)
    \/ \E t \in Tasks : CheckQuote(t)
    \/ \E t \in Tasks : Forward(t)
    \/ \E t \in Tasks, delivered \in BOOLEAN : ForwardReturn(t, delivered)
    \/ \E t \in Tasks : Confirm(t)
    \/ \E t \in Tasks, delivered \in BOOLEAN : ReplyReturn(t, delivered)

Spec == Init /\ [][Next]_vars

(***************************************************************************)
(* is_valid_solana_address called directly on a string.                    *)
(***************************************************************************)
CallValidator ==
    /\ ~returned
    /\ result' = is_valid_solana_address(arg)
    /\ returned' = TRUE
    /\ UNCHANGED << config, wallet, mainPc, processed_addresses, running, task, arg >>

InitValidator ==
    /\ TELEGRAM_API_TOKEN = "None"
    /\ GROUP_CHAT_ID = "None"
    /\ PRIVATE_KEY = "None"
    /\ wallet = "None"
    /\ mainPc = "main"
    /\ processed_addresses = {}
    /\ running = NoTask
    /\ task = [t \in Tasks |-> IdleTask]
    /\ arg \in ValidatorInputs
    /\ returned = FALSE
    /\ result = FALSE

NextValidator == CallValidator

SpecValidator == InitValidator /\ [][NextValidator]_vars

(***************************************************************************)
(* Properties.                                                             *)
(***************************************************************************)
Terminal(t) == task[t].pc \in {"done", "faulted"}
Handling(t) == task[t].handler = "handle_message"

\* the GET requests issued so far with outputMint = a
QuoteRequests(a) ==
    {<<t, i>> \in Tasks \X (1..1 + MaxTasks) :
        i \in DOMAIN task[t].gets /\ task[t].gets[i] = a}

SenderReply(t, kind, amount) ==
    <<[kind |-> kind, text |-> task[t].message_text, amount |-> amount]>>

\* C1: whatever the interleaving of the handler invocations, at most one
\* quote request is ever issued for one address string.
C1_OneQuotePerAddress ==
    \A t \in Tasks : Cardinality(QuoteRequests(task[t].message_text)) <= 1

\* two invocations carry the same address; the first is suspended in its
\* forward with its quote request made, the second was turned away
C1_Witness ==
    \E t, u \in Tasks :
        /\ t # u
        /\ task[t].message_text = task[u].message_text
        /\ task[t].pc = "L104"
        /\ task[t].gets = <<task[t].message_text>>
        /\ task[u].replies = SenderReply(u, "already", "")
        /\ task[u].gets = <<>>

\* the quote call succeeded: it returned a quote that carries outAmount
QuoteSucceeded(t) == task[t].response # NoResponse /\ HasKey(task[t].quote, "outAmount")

\* C2: a valid, unseen address whose quote call succeeds ends with exactly
\* one reply to the sender carrying the quote's output amount, exactly one
\* insertion into processed_addresses, exactly one forward when
\* GROUP_CHAT_ID is configured and none when it is not.
C2_SuccessOutcome ==
    \A t \in Tasks :
        (Handling(t) /\ QuoteSucceeded(t)) =>
            /\ task[t].adds = 1
            /\ task[t].message_text \in processed_addresses
            /\ Len(task[t].replies) <= 1
            /\ Len(task[t].forwards) <= 1
            /\ ~GroupConfigured => task[t].forwards = <<>>
            /\ Terminal(t) =>
                  /\ task[t].replies =
                        SenderReply(t, "confirm", GetKey(task[t].quote, "outAmount"))
                  /\ GroupConfigured =>
                        task[t].forwards =
                            <<[chat_id |-> GROUP_CHAT_ID, text |-> task[t].message_text,
                               amount |-> GetKey(task[t].quote, "outAmount")]>>

C2_Witness ==
    \E t, u \in Tasks :
        /\ QuoteSucceeded(t) /\ task[t].pc = "done" /\ Len(task[t].forwards) = 1
        /\ task[t].forward = "sent"
        /\ task[u].pc = "idle"

\* the quote call failed: execute_jupiter_swap returned a value that
\* `if not quote` takes for no quote
QuoteFailed(t) == task[t].response # NoResponse /\ ~Truthy(task[t].quote)

\* C3: when the quote call fails the sender gets exactly one failure reply,
\* nothing is forwarded and the address stays in processed_addresses; any
\* other submission of that address is answered 'already processed' and
\* issues no quote request.
C3_QuoteFailureConsumes ==
    \A t \in Tasks :
        (Handling(t) /\ QuoteFailed(t)) =>
            /\ task[t].message_text \in processed_addresses
            /\ task[t].forwards = <<>>
            /\ task[t].gets = <<task[t].message_text>>
            /\ task[t].pc # "L97" => task[t].replies = SenderReply(t, "failed", "")
            /\ \A u \in Tasks \ {t} :
                  (/\ Handling(u)
                   /\ task[u].message_text = task[t].message_text
                   /\ task[u].pc \in {"await_reply", "done", "faulted"}) =>
                      /\ task[u].replies = SenderReply(u, "already", "")
                      /\ task[u].gets = <<>>

C3_Witness ==
    \E t, u \in Tasks :
        /\ t < u
        /\ QuoteFailed(t) /\ task[t].pc = "done"
        /\ task[u].message_text = task[t].message_text
        /\ task[u].pc = "done"
        /\ task[u].replies = SenderReply(u, "already", "")

\* C4: a response that arrives with a success status and a parsed body
\* without outAmount is treated as a quote failure: the sender gets the
\* failure reply and the handler never faults on reading the field.
C4_ShapeFailureIsQuoteFailure ==
    \A t \in Tasks :
        (/\ Handling(t)
         /\ task[t].response.transport = "ok"
         /\ task[t].response.status = 200
         /\ task[t].response.body # Unparsable
         /\ ~HasKey(task[t].response.body, "outAmount")) =>
            /\ task[t].fault \notin {"KeyError", "TypeError"}
            /\ Terminal(t) => task[t].replies = SenderReply(t, "failed", "")

\* the handler has run the validation of line 85 and it failed
Rejected(t) ==
    /\ Handling(t)
    /\ task[t].pc # "handle_message"
    /\ task[t].message_text = strip(task[t].text)
    /\ ~is_valid_solana_address(task[t].message_text)

\* C5: text that fails the validation is answered with the rejection and
\* the handler stops: it has inserted nothing into processed_addresses,
\* issued no quote request and forwarded nothing.
C5_InvalidFrame ==
    \A t \in Tasks :
        Rejected(t) =>
            /\ task[t].pc \in {"await_reply", "done", "faulted"}
            /\ task[t].replies = SenderReply(t, "invalid", "")
            /\ task[t].adds = 0
            /\ task[t].message_text \notin processed_addresses
            /\ task[t].gets = <<>>
            /\ task[t].forwards = <<>>

C5_Witness ==
    \E t \in Tasks :
        /\ Rejected(t) /\ task[t].pc = "done"
        /\ processed_addresses # {}

\* the step in which invocation t runs the duplicate check of line 89
DedupStep(t) == task[t].pc = "L89" /\ task'[t].pc # "L89"

\* C6: an address found in processed_addresses is answered 'already
\* processed' and the handler stops: that step leaves processed_addresses
\* alone, and the invocation never issues a quote request nor forwards.
C6_DuplicateFrame ==
    /\ [][\A t \in Tasks :
            (DedupStep(t) /\ task[t].message_text \in processed_addresses) =>
                /\ processed_addresses' = processed_addresses
                /\ task'[t].pc = "await_reply"
                /\ task'[t].replies = SenderReply(t, "already", "")]_vars
    /\ [](\A t \in Tasks :
            (Len(task[t].replies) > 0 /\ task[t].replies[1].kind = "already") =>
                /\ task[t].pc \in {"await_reply", "done", "faulted"}
                /\ Len(task[t].replies) = 1
                /\ task[t].adds = 0
                /\ task[t].gets = <<>>
                /\ task[t].forwards = <<>>)

C6_Witness ==
    \E t \in Tasks :
        /\ task[t].replies = SenderReply(t, "already", "")
        /\ task[t].pc = "done"
        /\ task[t].text # task[t].message_text

\* C7: when the forward to the group fails to be delivered, the handler
\* still sends the sender exactly one confirmation and what send_message
\* raised never leaves the handler: it ends normally unless the reply's
\* own delivery raises.
C7_ForwardFailureSwallowed ==
    \A t \in Tasks :
        task[t].forward = "failed" =>
            /\ task[t].pc \in {"L112", "await_reply", "done", "faulted"}
            /\ task[t].pc = "L112" => (running = t /\ task[t].replies = <<>>)
            /\ task[t].pc # "L112" =>
                  task[t].replies =
                      SenderReply(t, "confirm", GetKey(task[t].quote, "outAmount"))
            /\ task[t].pc = "faulted" => task[t].fault = "NetworkError"

C7_Witness ==
    \E t \in Tasks :
        /\ task[t].forward = "failed"
        /\ task[t].pc = "done"
        /\ Len(task[t].replies) = 1

\* the base-58 alphabet: the digits 1-9, the uppercase letters but I and O,
\* the lowercase letters but l
Base58Alphabet ==
    (49..57) \cup ((65..90) \ {73, 79}) \cup ((97..122) \ {108})

\* C8: is_valid_solana_address returns true exactly for the strings of 32 to
\* 44 characters that are all of the base-58 alphabet.
C8_ValidIffBase58 ==
    returned =>
        (result <=> /\ Len(arg) \in MinLen..MaxLen
                    /\ \A i \in 1..Len(arg) : arg[i] \in Base58Alphabet)

StartupConfigBad ==
    Falsy(TELEGRAM_API_TOKEN) \/ Falsy(PRIVATE_KEY) \/ PRIVATE_KEY = "malformed"

\* C9: with the bot token missing, or the private key missing or invalid,
\* the process never reaches the dispatch of updates: no handler runs,
\* nothing is inserted and no quote request is issued.
C9_NoStartWithoutSecrets ==
    StartupConfigBad =>
        /\ mainPc \in {"main", "setup_and_run_bot", "exited"}
        /\ (Falsy(PRIVATE_KEY) \/ PRIVATE_KEY = "malformed") =>
              (mainPc \in {"main", "exited"} /\ wallet = "None")
        /\ processed_addresses = {}
        /\ running = NoTask
        /\ \A t \in Tasks : task[t] = IdleTask

C9_Witness ==
    /\ mainPc = "exited"
    /\ PRIVATE_KEY = "malformed"
    /\ TELEGRAM_API_TOKEN = "token"

\* C10: execute_jupiter_swap issues one request and returns the failure
\* value on a transport error, a status outside 2xx or an unparsable body,
\* and the parsed body otherwise.
C10_QuoteClientResult ==
    \A t \in Tasks :
        task[t].response # NoResponse =>
            /\ Len(task[t].gets) = 1
            /\ task[t].quote =
                  IF \/ task[t].response.transport = "error"
                     \/ task[t].response.status \notin 200..299
                     \/ task[t].response.body = Unparsable
                  THEN PyNone
                  ELSE task[t].response.body

\* C11: processed_addresses starts empty and only grows: no step of the
\* process, whatever messages, quote failures or delivery failures occur,
\* removes a member.
C11_RegistryMonotonic ==
    /\ processed_addresses = {}
    /\ [][processed_addresses \subseteq processed_addresses']_vars

\* two addresses are members after a quote failure and a failed delivery
C11_Witness ==
    \E t, u \in Tasks :
        /\ Cardinality(processed_addresses) = 2
        /\ QuoteFailed(t) /\ task[t].pc = "faulted"
        /\ task[u].forward = "failed" /\ task[u].pc = "done"

\* C12: the address is inserted before the quote request is issued, with no
\* suspension between the membership test and the insertion: every address
\* a quote request was issued for is in processed_addresses, and an
\* invocation between the test of line 89 and the request of line 58 holds
\* the event loop.
C12_MarkedBeforeQuote ==
    \A t \in Tasks :
        /\ \A i \in DOMAIN task[t].gets : task[t].gets[i] \in processed_addresses
        /\ task[t].pc \in {"L89", "L93", "L96"} => running = t
        /\ task[t].pc = "L96" => task[t].message_text \in processed_addresses

\* a quote request is in flight
C12_Witness ==
    \E t \in Tasks :
        /\ task[t].pc = "L58"
        /\ task[t].gets = <<task[t].message_text>>
        /\ task[t].message_text \in processed_addresses

Confirmed(t) == Len(task[t].replies) > 0 /\ task[t].replies[1].kind = "confirm"

\* C13 as stated: with a group configured, the confirmation reply to the
\* sender is sent before the forward to the group is attempted.
C13_ReplyBeforeForward ==
    \A t \in Tasks : Len(task[t].forwards) > 0 => Confirmed(t)

\* C13 as amended: with a group configured, the forward is attempted first
\* and the confirmation is sent only after the forward has been delivered
\* or has failed: while the forward is under way no reply has been sent.
C13_ForwardBeforeReply ==
    \A t \in Tasks :
        /\ task[t].pc = "L104" => (Len(task[t].forwards) = 1 /\ task[t].replies = <<>>)
        /\ (Confirmed(t) /\ GroupConfigured) =>
              (Len(task[t].forwards) = 1 /\ task[t].forward \in {"sent", "failed"})

C13_Witness ==
    \E t \in Tasks :
        /\ Confirmed(t) /\ GroupConfigured
        /\ task[t].forward = "sent"
        /\ task[t].pc = "await_reply"

\* C14: an invocation suspends at the quote fetch as at each outbound
\* reply and forward: while its network call is outstanding it has given
\* up the event loop, so that another invocation can take steps.
C14_SuspendsAtQuoteFetch ==
    \A t \in Tasks :
        task[t].pc \in {"L58", "L104", "await_reply"} => running # t

CommandHandling(t) == task[t].handler \in {"start", "help_command"}

\* C15: /start and /help only send their help reply to the sender: their
\* handlers never change processed_addresses, issue no quote request and
\* forward nothing; only text that is not a command reaches handle_message.
C15_CommandsOnlyReply ==
    /\ [](\A t \in Tasks :
            /\ task[t].text = CmdStart => task[t].handler = "start"
            /\ task[t].text = CmdHelp => task[t].handler = "help_command"
            /\ Handling(t) => ~IsCommand(task[t].text)
            /\ CommandHandling(t) =>
                  /\ task[t].pc \in {task[t].handler, "await_reply", "done", "faulted"}
                  /\ task[t].replies =
                        IF task[t].pc = task[t].handler THEN <<>>
                        ELSE SenderReply(t, task[t].handler, "")
                  /\ task[t].adds = 0
                  /\ task[t].gets = <<>>
                  /\ task[t].forwards = <<>>)
    /\ [][\A t \in Tasks :
            (CommandHandling(t) /\ task'[t] # task[t]) =>
                processed_addresses' = processed_addresses]_vars

C15_Witness ==
    \E t, u \in Tasks :
        /\ task[t].text = CmdStart /\ task[t].pc = "done"
        /\ task[u].text = CmdHelp /\ task[u].pc = "done"
        /\ Len(task[t].replies) = 1 /\ Len(task[u].replies) = 1

(***************************************************************************)
(* Scheduling: the event loop runs a coroutine that can run, and every     *)
(* network call returns or raises.                                         *)
(***************************************************************************)
HandlerStep(t) ==
    \/ Help(t)
    \/ Validate(t)
    \/ DedupCheck(t)
    \/ MarkSeen(t)
    \/ SendQuoteRequest(t)
    \/ \E response \in Responses : QuoteReturn(t, response)
    \/ CheckQuote(t)
    \/ Forward(t)
    \/ \E delivered \in BOOLEAN : ForwardReturn(t, delivered)
    \/ Confirm(t)
    \/ \E delivered \in BOOLEAN : ReplyReturn(t, delivered)

FairSpec == Spec /\ \A t \in Tasks : WF_vars(HandlerStep(t))

\* every started invocation of a handler comes to its end
EventuallyCompletes ==
    \A t \in Tasks : (task[t].pc # "idle") ~> Terminal(t)

\* C16: every handle_message invocation that has come to its end has sent
\* exactly one reply to the sender, on each of its paths (invalid address,
\* duplicate, quote failure, quote success).
C16_CompletesWithOneReply ==
    \A t \in Tasks :
        (Handling(t) /\ Terminal(t)) => Len(task[t].replies) = 1

\* invocation t got past the validation of line 85 and the duplicate check
\* of line 89 and went on past line 93
Admitted(t) ==
    /\ Handling(t)
    /\ \/ task[t].pc \in {"L96", "L58", "L97", "L102", "L104", "L112"}
       \/ /\ task[t].pc \in {"await_reply", "done", "faulted"}
          /\ \A i \in DOMAIN task[t].replies :
                task[t].replies[i].kind \in {"failed", "confirm"}

\* C17: processed_addresses holds only strings that pass
\* is_valid_solana_address, and its members are exactly the stripped,
\* otherwise unchanged texts of the invocations that got past the validation
\* and the duplicate check (an invocation between its checks and its add
\* holds the event loop, so no other invocation sees that moment).
C17_RegistryContents ==
    /\ \A a \in processed_addresses : is_valid_solana_address(a)
    /\ processed_addresses = {strip(task[t].text) : t \in {u \in Tasks : Admitted(u)}}
    /\ \A t \in Tasks : task[t].pc = "L93" =>
          (running = t /\ task[t].message_text \notin processed_addresses)

\* the only member came in with surrounding whitespace, and a second
\* invocation with the bare address was turned away as a duplicate
C17_Witness ==
    \E t, u \in Tasks :
        /\ Admitted(t) /\ task[t].text # strip(task[t].text)
        /\ processed_addresses = {strip(task[t].text)}
        /\ task[u].text = strip(task[t].text)
        /\ task[u].replies = SenderReply(u, "already", "")

=============================================================================
